---- MODULE Spec2Model ----
(***************************************************************************)
(* Model of app2.py: the model-fallback invoker generate_with_fallback and *)
(* the prompt assembly done when the "Generate Question Paper" button is   *)
(* clicked.                                                                *)
(***************************************************************************)
EXTENDS Integers, Sequences, FiniteSets, TLC

(***************************************************************************)
(* Python values.  A str is a sequence of characters; None, a missing      *)
(* attribute (AttributeError on access) and a property whose getter raises *)
(* are kept apart from the empty str.                                      *)
(***************************************************************************)
PyNone == [tag |-> "None", s |-> <<>>]
PyStr(s) == [tag |-> "str", s |-> s]
Absent == [tag |-> "absent", s |-> <<>>]
Raises == [tag |-> "raises", s |-> <<>>]

\* Python truthiness of a str-or-None value: None and "" are falsy.
Truthy(v) == v.tag = "str" /\ Len(v.s) > 0

(***************************************************************************)
(* 1b. Model fallback config                                               *)
(***************************************************************************)
PRIMARY_MODEL == "gemini-2.0-flash"
FALLBACK_MODELS ==
    << "gemini-2.5-flash-lite", "gemma-3-1b", "gemma-3-2b", "gemma-3-4b", "gemma-3-12b" >>

\* The list the for loop iterates: [PRIMARY_MODEL] + FALLBACK_MODELS.
ModelList == <<PRIMARY_MODEL>> \o FALLBACK_MODELS
N == Len(ModelList)

(***************************************************************************)
(* Exceptions.  An exception object is identified by its type and by the   *)
(* position in the list of the model whose attempt raised it.              *)
(***************************************************************************)
NoError == [type |-> "None", model |-> 0]
ResourceExhausted(i) == [type |-> "ResourceExhausted", model |-> i]
OtherException(i) == [type |-> "Exception", model |-> i]
\* What the nested path raises (IndexError / AttributeError) on model i.
ExtractionError(i) == [type |-> "ExtractionError", model |-> i]
RuntimeErrorAllFailed == [type |-> "RuntimeError", model |-> 0]

(***************************************************************************)
(* Responses of model.generate_content for model i.  The text of model i   *)
(* names the model so that texts of different models differ.               *)
(***************************************************************************)
PrimaryText(i) == PyStr(<<"text of ", ModelList[i]>>)
PartText(i) == PyStr(<<"part text of ", ModelList[i]>>)

\* response.text: attribute missing, getter raising, None, "", or a text.
TextFields(i) == {Absent, Raises, PyNone, PyStr(<<>>), PrimaryText(i)}

\* response.candidates: no candidate, a candidate with no part, or a
\* candidate whose first part has text missing / None / "" / a text.
CandidateLists(i) ==
    { <<>>, << <<>> >> } \cup
    { << <<pt>> >> : pt \in {Absent, PyNone, PyStr(<<>>), PartText(i)} }

Responses(i) == [text : TextFields(i), candidates : CandidateLists(i)]

\* response.candidates[0].content.parts[0].text: Raises when an index or an
\* attribute on the path is missing, the value otherwise.
NestedText(response) ==
    IF Len(response.candidates) = 0 THEN Raises
    ELSE IF Len(response.candidates[1]) = 0 THEN Raises
    ELSE IF response.candidates[1][1].tag = "absent" THEN Raises
    ELSE response.candidates[1][1]

(***************************************************************************)
(* Body of the try block after generate_content returned (lines 52-58):    *)
(* what the iteration does with the response, the value it returns if it   *)
(* returns, and whether the nested path was evaluated.                     *)
(***************************************************************************)
\* Faulty variant: the candidates path is tried before response.text.
ExtractTextNestedFirst(response) ==
    IF NestedText(response) # Raises
    THEN [do |-> "return", value |-> NestedText(response), nested |-> TRUE]
    ELSE IF response.text.tag = "raises"
    THEN [do |-> "raise", value |-> PyNone, nested |-> TRUE]
    ELSE IF response.text.tag # "absent" /\ Truthy(response.text)
    THEN [do |-> "return", value |-> response.text, nested |-> TRUE]
    ELSE [do |-> "continue", value |-> PyNone, nested |-> TRUE]

\* Faulty variant: the candidates path is never tried.
ExtractTextNoNested(response) ==
    IF response.text.tag = "raises"
    THEN [do |-> "raise", value |-> PyNone, nested |-> FALSE]
    ELSE IF response.text.tag # "absent" /\ Truthy(response.text)
    THEN [do |-> "return", value |-> response.text, nested |-> FALSE]
    ELSE [do |-> "continue", value |-> PyNone, nested |-> FALSE]

ExtractText(response) ==
    IF response.text.tag = "raises"
    \* hasattr lets every exception but AttributeError through
    THEN [do |-> "raise", value |-> PyNone, nested |-> FALSE]
    ELSE IF response.text.tag # "absent" /\ Truthy(response.text)
    THEN [do |-> "return", value |-> response.text, nested |-> FALSE]
    ELSE IF NestedText(response) = Raises
    THEN [do |-> "continue", value |-> PyNone, nested |-> TRUE]
    ELSE [do |-> "return", value |-> NestedText(response), nested |-> TRUE]

(***************************************************************************)
(* The except clauses (lines 59-64): the error remembered and what the     *)
(* loop does next.                                                         *)
(***************************************************************************)
\* Faulty variants: the quota error leaves the function at once; the same
\* model is tried again.
OnResourceExhaustedReraise(e) == [last_error |-> e, do |-> "raise"]
OnResourceExhaustedRetry(e) == [last_error |-> e, do |-> "retry"]
OnResourceExhausted(e) == [last_error |-> e, do |-> "next"]

OnException(e) == [last_error |-> e, do |-> "next"]

\* Line 67: raise last_error if last_error else RuntimeError(...).
RaiseAfterLoop(err) == IF err # NoError THEN err ELSE RuntimeErrorAllFailed

(***************************************************************************)
(* 3. Prompt assembly (lines 141-192).  A str is a sequence of characters; *)
(* a literal piece of the f-string template is kept as one element.        *)
(***************************************************************************)
Digits == << "0", "1", "2", "3", "4", "5", "6", "7", "8", "9" >>

\* str(n) of a non-negative int, as "{n}" renders it in an f-string.
RECURSIVE Str(_)
Str(n) == IF n < 10 THEN << Digits[n + 1] >>
          ELSE Str(n \div 10) \o << Digits[(n % 10) + 1] >>

Whitespace == {" ", "\n", "\t"}

RECURSIVE LStrip(_)
LStrip(s) == IF s # <<>> /\ s[1] \in Whitespace THEN LStrip(Tail(s)) ELSE s

RECURSIVE RStrip(_)
RStrip(s) == IF s # <<>> /\ s[Len(s)] \in Whitespace
             THEN RStrip(SubSeq(s, 1, Len(s) - 1)) ELSE s

\* str.strip()
Strip(s) == RStrip(LStrip(s))

\* s[:n]
Take(s, n) == SubSeq(s, 1, IF Len(s) < n THEN Len(s) ELSE n)

DocLimit == 15000

\* Lines 143-155.
RequirementText(comment, two, five, ten) ==
    IF Strip(comment) # <<>>
    THEN << "Follow these teacher instructions when deciding the number of ",
            "questions, marks and style:\n" >>
         \o Strip(comment) \o << "\n" >>
    ELSE << "\nGenerate exactly:\n- " >> \o Str(two)
         \o << " questions of 2 marks\n- " >> \o Str(five)
         \o << " questions of 5 marks\n- " >> \o Str(ten)
         \o << " questions of 10 marks\n" >>

PromptHead ==
    << "\nYou are an expert university question paper setter.\n",
       "You must create different sets of questions each time you are called,\n",
       "avoiding reusing previous questions as much as possible.\n",
       "\nStudy material:\n",
       "\n--- Document Content Start ---\n" >>

PromptRequirements ==
    << "\n--- Document Content End ---\n", "\nRequirements:\n" >>

PromptRules ==
    << "\n\nAdditional rules:\n",
       "- Do NOT repeat questions or wording from any previous paper you might have created.\n",
       "- Vary phrasing, ordering and subtopics so each paper feels different.\n",
       "- Use clear, exam-style questions only.\n",
       "\n", "Random variation id: " >>

\* The emoji that opens the "Question Paper" line is left out of the literal.
PromptFormat ==
    << "\n", "\nFormat clearly like this:\n", "**Question Paper**\n", "---\n",
       "**Section A (2 Marks Questions)**\n", "1. ...\n", "2. ...\n",
       "\n**Section B (5 Marks Questions)**\n", "1. ...\n", "2. ...\n",
       "\n**Section C (10 Marks Questions)**\n", "1. ...\n", "2. ...\n" >>

\* A faulty assembly that also stamps the variation id into the header.
PromptStampedTwice(text, requirement, seed) ==
    << "Paper set " >> \o Str(seed) \o PromptHead \o Take(text, DocLimit)
    \o PromptRequirements \o requirement \o PromptRules \o Str(seed) \o PromptFormat

\* Lines 157-192.
Prompt(text, requirement, seed) ==
    PromptHead \o Take(text, DocLimit) \o PromptRequirements \o requirement
    \o PromptRules \o Str(seed) \o PromptFormat

(***************************************************************************)
(* Bound of the model: how many times generate_with_fallback is called.    *)
(***************************************************************************)
MaxInvocations == 1

(***************************************************************************)
(* State of one invocation of generate_with_fallback.                      *)
(*   pc          "idle", "loop", "returned" or "raised"                    *)
(*   idx         position in ModelList of the iteration about to run       *)
(*   last_error  the local of that name                                    *)
(*   response    the last value generate_content returned                  *)
(*   returned    the value returned, raised the exception that left the    *)
(*               function                                                  *)
(* History of the invocation, read by the properties only:                 *)
(*   attempted   the model names the loop body was entered with            *)
(*   calls       number of generate_content calls made                     *)
(*   outcomes    how each iteration ended: "quota", "other" (another       *)
(*               exception of the constructor or the call), "badtext" (the *)
(*               text getter raised), "unparseable" (no text, nested path  *)
(*               raised), "text" (truthy value returned), "empty" (falsy   *)
(*               value returned)                                           *)
(*   errors      the exception each iteration's backend produced, NoError  *)
(*               if none                                                   *)
(*   nested_evaluated  whether the last iteration evaluated the nested     *)
(*               candidates path                                           *)
(***************************************************************************)
VARIABLES pc, idx, last_error, response, returned, raised,
          attempted, calls, outcomes, errors, nested_evaluated, invocations

fvars == << pc, idx, last_error, response, returned, raised,
            attempted, calls, outcomes, errors, nested_evaluated, invocations >>

(***************************************************************************)
(* State of the page: the text of the uploaded document, the widgets, and  *)
(* the locals of the button handler from its latest run.                   *)
(*   prev_seed, prev_prompt  variation_seed and prompt of the run before,  *)
(*               read by the properties only                               *)
(*   clicks      number of clicks on the Generate button                   *)
(***************************************************************************)
VARIABLES full_text, num_two, num_five, num_ten, teacher_comment,
          variation_seed, prompt, prev_seed, prev_prompt, clicks

pvars == << full_text, num_two, num_five, num_ten, teacher_comment,
            variation_seed, prompt, prev_seed, prev_prompt, clicks >>

vars == << fvars, pvars >>

NoResponse == [text |-> Absent, candidates |-> <<>>]

FallbackInit ==
    /\ pc = "idle"
    /\ idx = 1
    /\ last_error = NoError
    /\ response = NoResponse
    /\ returned = PyNone
    /\ raised = NoError
    /\ attempted = <<>>
    /\ calls = 0
    /\ outcomes = <<>>
    /\ errors = <<>>
    /\ nested_evaluated = FALSE
    /\ invocations = 0

\* random.randint(1, 1_000_000)
SeedMin == 1
SeedMax == 1000000
Seeds == {SeedMin, 7, 10, 999999, SeedMax}

\* Texts the loaders can produce: empty, short, exactly DocLimit characters,
\* and one character more than DocLimit.
Documents ==
    { <<>>,
      << "D", "B", "M", "S", " ", "7" >>,
      [j \in 1..DocLimit |-> "x"],
      [j \in 1..(DocLimit + 1) |-> IF j > DocLimit THEN "z" ELSE "y"] }

\* Contents of the text area: empty, whitespace only, text with and
\* without surrounding whitespace.
Comments ==
    { <<>>, << " ", "\n" >>, << "o", "n", "l", "y", " ", "5" >>,
      << " ", "1", "0", " ", "m", "a", "r", "k", "s", "\n" >> }

\* st.number_input(label, min, max, default): values between min and max.
NumTwoValues == {0, 10, 20}
NumFiveValues == {5, 10}
NumTenValues == {0, 2}

MaxClicks == 2

PageInit ==
    /\ full_text \in Documents
    /\ num_two \in NumTwoValues
    /\ num_five \in NumFiveValues
    /\ num_ten \in NumTenValues
    /\ teacher_comment \in Comments
    /\ variation_seed = 0
    /\ prompt = <<>>
    /\ prev_seed = 0
    /\ prev_prompt = <<>>
    /\ clicks = 0

\* The page the invoker is studied on: one document, the default widgets.
PageFixed ==
    /\ full_text = << "D", "B", "M", "S", " ", "7" >>
    /\ num_two = 10
    /\ num_five = 5
    /\ num_ten = 2
    /\ teacher_comment = <<>>
    /\ variation_seed = 0
    /\ prompt = <<>>
    /\ prev_seed = 0
    /\ prev_prompt = <<>>
    /\ clicks = 0

Init == FallbackInit /\ PageFixed

\* The button handler up to the call of generate_with_fallback
\* (lines 138-192).
ClickGenerate ==
    /\ clicks < MaxClicks
    /\ \E seed \in Seeds :
        /\ variation_seed' = seed
        /\ prompt' = Prompt(full_text,
                            RequirementText(teacher_comment, num_two, num_five, num_ten),
                            seed)
    /\ prev_seed' = variation_seed
    /\ prev_prompt' = prompt
    /\ clicks' = clicks + 1
    /\ UNCHANGED << full_text, num_two, num_five, num_ten, teacher_comment >>
    /\ UNCHANGED fvars

\* Entry of generate_with_fallback: last_error = None, the loop starts.
Call ==
    /\ pc \in {"idle", "returned", "raised"}
    /\ invocations < MaxInvocations
    /\ invocations' = invocations + 1
    /\ pc' = "loop"
    /\ idx' = 1
    /\ last_error' = NoError
    /\ response' = NoResponse
    /\ returned' = PyNone
    /\ raised' = NoError
    /\ attempted' = <<>>
    /\ calls' = 0
    /\ outcomes' = <<>>
    /\ errors' = <<>>
    /\ nested_evaluated' = FALSE
    /\ UNCHANGED pvars

\* An except clause ran with handler result h after the backend produced e.
Handled(h, e, kind) ==
    /\ last_error' = h.last_error
    /\ outcomes' = Append(outcomes, kind)
    /\ errors' = Append(errors, e)
    /\ nested_evaluated' = FALSE
    /\ returned' = PyNone
    /\ IF h.do = "raise"
       THEN pc' = "raised" /\ raised' = e /\ idx' = idx
       ELSE /\ pc' = "loop"
            /\ raised' = NoError
            /\ idx' = IF h.do = "next" THEN idx + 1 ELSE idx

\* genai.GenerativeModel(model_name) raises: no generation call is made.
AttemptConstructorRaises ==
    /\ pc = "loop"
    /\ idx <= N
    /\ attempted' = Append(attempted, ModelList[idx])
    /\ calls' = calls
    /\ Handled(OnException(OtherException(idx)), OtherException(idx), "other")
    /\ UNCHANGED << response, invocations, pvars >>

\* generate_content raises ResourceExhausted.
AttemptResourceExhausted ==
    /\ pc = "loop"
    /\ idx <= N
    /\ attempted' = Append(attempted, ModelList[idx])
    /\ calls' = calls + 1
    /\ Handled(OnResourceExhausted(ResourceExhausted(idx)), ResourceExhausted(idx), "quota")
    /\ UNCHANGED << response, invocations, pvars >>

\* generate_content raises any other exception.
AttemptOtherException ==
    /\ pc = "loop"
    /\ idx <= N
    /\ attempted' = Append(attempted, ModelList[idx])
    /\ calls' = calls + 1
    /\ Handled(OnException(OtherException(idx)), OtherException(idx), "other")
    /\ UNCHANGED << response, invocations, pvars >>

\* generate_content returns a response; lines 52-58 run on it.
AttemptResponse ==
    /\ pc = "loop"
    /\ idx <= N
    /\ \E r \in Responses(idx) :
        LET x == ExtractText(r) IN
        /\ response' = r
        /\ attempted' = Append(attempted, ModelList[idx])
        /\ calls' = calls + 1
        /\ IF x.do = "raise"
           THEN \* the getter's exception reaches "except Exception"
                Handled(OnException(OtherException(idx)), OtherException(idx), "badtext")
           ELSE IF x.do = "return"
           THEN /\ pc' = "returned"
                /\ returned' = x.value
                /\ outcomes' = Append(outcomes, IF Truthy(x.value) THEN "text" ELSE "empty")
                /\ errors' = Append(errors, NoError)
                /\ nested_evaluated' = x.nested
                /\ UNCHANGED << idx, last_error, raised >>
           ELSE \* the inner except: continue
                /\ pc' = "loop"
                /\ idx' = idx + 1
                /\ outcomes' = Append(outcomes, "unparseable")
                /\ errors' = Append(errors, ExtractionError(idx))
                /\ nested_evaluated' = x.nested
                /\ UNCHANGED << last_error, returned, raised >>
    /\ UNCHANGED << invocations, pvars >>

\* The loop is over: line 67.
RaiseLast ==
    /\ pc = "loop"
    /\ idx > N
    /\ pc' = "raised"
    /\ raised' = RaiseAfterLoop(last_error)
    /\ UNCHANGED << idx, last_error, response, returned, attempted, calls,
                    outcomes, errors, nested_evaluated, invocations, pvars >>

Next ==
    \/ Call
    \/ AttemptConstructorRaises
    \/ AttemptResourceExhausted
    \/ AttemptOtherException
    \/ AttemptResponse
    \/ RaiseLast

Spec == Init /\ [][Next]_vars

\* Prompt assembly on its own, over the documents and widget values.
InitPrompt == FallbackInit /\ PageInit

NextPrompt == ClickGenerate

SpecPrompt == InitPrompt /\ [][NextPrompt]_vars

(***************************************************************************)
(* Vocabulary of the properties, stated on the backend's response itself.  *)
(***************************************************************************)
IsPrefix(s, t) == Len(s) <= Len(t) /\ \A j \in 1..Len(s) : s[j] = t[j]

Last(s) == s[Len(s)]

\* The last iteration received a response (the variable response is it).
LastGotResponse ==
    /\ Len(outcomes) > 0
    /\ Last(outcomes) \in {"badtext", "unparseable", "text", "empty"}

PrimaryPresent(r) == r.text.tag = "str" /\ r.text.s # <<>>

PrimaryEmptyOrAbsent(r) == r.text.tag \in {"absent", "None"} \/ r.text = PyStr(<<>>)

NestedYieldsText(r) ==
    /\ r.candidates # <<>>
    /\ r.candidates[1] # <<>>
    /\ r.candidates[1][1].tag = "str"
    /\ r.candidates[1][1].s # <<>>

AllQuota(k) == \A j \in 1..k : outcomes[j] = "quota"

\* C1: if the first K backends attempted raise ResourceExhausted the loop
\* goes on to backend K+1, and if backend K+1 then yields text the
\* invocation returns that backend's text, raises nothing, and has
\* attempted exactly K+1 backends in every state from then on.
Thm_C1 ==
    \A K \in 0..(N - 1) :
        /\ (pc # "idle" /\ Len(outcomes) = K /\ AllQuota(K))
              => (pc = "loop" /\ idx = K + 1 /\ Len(attempted) = K)
        /\ (Len(outcomes) > K /\ AllQuota(K) /\ outcomes[K + 1] = "text")
              => /\ pc = "returned"
                 /\ raised = NoError
                 /\ returned \in {PrimaryText(K + 1), PartText(K + 1)}
                 /\ \/ returned = response.text
                    \/ NestedYieldsText(response) /\ returned = response.candidates[1][1]
                 /\ Len(attempted) = K + 1
                 /\ calls = K + 1

Wit_C1 ==
    /\ pc = "returned"
    /\ Len(outcomes) = N
    /\ AllQuota(N - 1)
    /\ outcomes[N] = "text"
    /\ returned = PrimaryText(N)

\* C4: the models attempted so far are a prefix of
\* [PRIMARY_MODEL] + FALLBACK_MODELS (so each is attempted at most once, in
\* list order) and at most N generation calls are made.
Thm_C4 ==
    /\ IsPrefix(attempted, <<PRIMARY_MODEL>> \o FALLBACK_MODELS)
    /\ calls <= Len(<<PRIMARY_MODEL>> \o FALLBACK_MODELS)
    /\ calls <= Len(attempted)

Wit_C4 == pc = "raised" /\ Len(attempted) = N /\ calls = N

\* C5: a response whose text is present and non-empty makes the invocation
\* return exactly that text without evaluating the nested candidates path.
Thm_C5 ==
    (LastGotResponse /\ PrimaryPresent(response))
        => /\ pc = "returned"
           /\ returned = response.text
           /\ ~nested_evaluated

Wit_C5 ==
    /\ LastGotResponse
    /\ PrimaryPresent(response)
    /\ NestedYieldsText(response)
    /\ pc = "returned"
    /\ Len(attempted) = 2

\* C6: a response whose text is empty or absent and whose nested path
\* yields text makes the invocation return the nested text; no error is
\* recorded for that backend and no further backend is attempted.
Thm_C6 ==
    (LastGotResponse /\ PrimaryEmptyOrAbsent(response) /\ NestedYieldsText(response))
        => /\ pc = "returned"
           /\ returned = response.candidates[1][1]
           /\ raised = NoError
           /\ last_error.model # Len(outcomes)
           /\ Len(attempted) = Len(outcomes)
           /\ idx = Len(outcomes)

Wit_C6 ==
    /\ LastGotResponse
    /\ response.text = PyStr(<<>>)
    /\ NestedYieldsText(response)
    /\ pc = "returned"
    /\ returned = PartText(3)
    /\ last_error = ResourceExhausted(2)

\* C2: when every backend of the list failed, the invocation raises the
\* error produced by the last backend attempted.
Cex_C2 ==
    (pc = "raised" /\ Len(outcomes) = N)
        => raised = errors[N]

\* C3: a ResourceExhausted error is surfaced only if the final backend of
\* the list raised it.
Cex_C3 ==
    (pc = "raised" /\ raised.type = "ResourceExhausted")
        => raised.model = N

\* C8: when the list is exhausted an error has been recorded in
\* last_error, so the generic RuntimeError is never what is raised.
Cex_C8 ==
    /\ (pc = "loop" /\ idx > N) => last_error # NoError
    /\ pc = "raised" => raised # RuntimeErrorAllFailed

\* C9: an unparseable response advances to the next backend and its
\* failure is retained as the reported cause.
Cex_C9 ==
    (pc = "loop" /\ Len(outcomes) > 0 /\ Last(outcomes) = "unparseable")
        => /\ idx = Len(outcomes) + 1
           /\ last_error = Last(errors)

\* C10: a normal return yields non-empty text, never "" and never None.
Cex_C10 == pc = "returned" => Truthy(returned)

\* p and q are equal except that p carries a where q carries b, right
\* after the "Random variation id: " label.
DiffersOnlyInId(p, q, a, b) ==
    \E k \in 1..Len(p) :
        /\ p[k] = "Random variation id: "
        /\ k + Len(a) <= Len(p)
        /\ k + Len(b) <= Len(q)
        /\ SubSeq(p, k + 1, k + Len(a)) = a
        /\ SubSeq(q, k + 1, k + Len(b)) = b
        /\ SubSeq(p, 1, k) = SubSeq(q, 1, k)
        /\ SubSeq(p, k + Len(a) + 1, Len(p)) = SubSeq(q, k + Len(b) + 1, Len(q))

\* C7: two prompts built from the same document, counts and comment are
\* equal if the seeds are equal, and with different seeds they differ only
\* in the digits of the variation id.
Thm_C7 ==
    clicks >= 2 =>
        IF variation_seed = prev_seed
        THEN prompt = prev_prompt
        ELSE DiffersOnlyInId(prev_prompt, prompt, Str(prev_seed), Str(variation_seed))

Wit_C7 ==
    /\ clicks >= 2
    /\ prev_seed = 7
    /\ variation_seed = SeedMax
    /\ Len(full_text) > DocLimit
    /\ Strip(teacher_comment) # <<>>
    /\ Len(prompt) = Len(prev_prompt) + 6

====
